---- MODULE Spec2Model ----
(***************************************************************************)
(* PromisePool (src/src/PromisePool.ts): a fixed number of asynchronous    *)
(* tasks, identified by index, run with a bound on how many are in flight, *)
(* under one of three error policies (abort, drain, continue).             *)
(*                                                                         *)
(* JavaScript runs the Promise executor synchronously and then each        *)
(* settlement callback of a task promise as one microtask, so the model    *)
(* has one action for the executor and one per settlement callback; the    *)
(* recursive trigger() is an operator applied inside those actions.        *)
(***************************************************************************)
EXTENDS Integers, Sequences, FiniteSets, TLC

\* Bounds of the model.
MaxCount == 4
MaxConcurrency == 3
MaxNonPositive == 1
MaxErrors == 2

VARIABLES
    concurrency,  \* options.concurrency
    count,        \* options.count
    onError,      \* options.onError
    completed,    \* let completed
    ongoing,      \* let ongoing
    started,      \* let started
    ended,        \* let ended
    draining,     \* let draining
    errors,       \* const errors: Error[]
    outcome,      \* state of the promise PromisePool returns
    settleCalls,  \* how many times resolve or reject was called
    calls,        \* indices passed to task(), in call order
    pending,      \* positions in calls whose task promise is not settled yet
    failLog,      \* failures of tasks, in the order the tasks settled
    pc            \* "created" before the executor ran, "running" after

vars == <<concurrency, count, onError, completed, ongoing, started, ended,
          draining, errors, outcome, settleCalls, calls, pending, failLog, pc>>

config == <<concurrency, count, onError>>

OnError == {"abort", "drain", "continue"}

\* The values a task may fail with; two tasks may fail with the same value.
ErrorValues == 1..MaxErrors

Concurrencies == (0 - MaxNonPositive)..MaxConcurrency

Counts == 0..MaxCount

-----------------------------------------------------------------------------
\* The values the returned promise can be rejected with.

TaskError(e) == [type |-> "Error", id |-> e]

Message(n) == ToString(n) \o " task(s) failed"

AggregateError(errs, message) ==
    [type |-> "AggregateError", errors |-> errs, message |-> message]

PendingPromise == [state |-> "pending", reason |-> [type |-> "none"]]

\* resolve() of the returned promise: only the first settlement takes effect.
Resolve(s) ==
    [s EXCEPT !.settleCalls = @ + 1,
              !.outcome = IF @.state = "pending"
                          THEN [state |-> "fulfilled", reason |-> [type |-> "none"]]
                          ELSE @]

\* reject(reason) of the returned promise.
Reject(s, reason) ==
    [s EXCEPT !.settleCalls = @ + 1,
              !.outcome = IF @.state = "pending"
                          THEN [state |-> "rejected", reason |-> reason]
                          ELSE @]

-----------------------------------------------------------------------------
\* The closure state of one PromisePool call, as a record.

State ==
    [completed |-> completed, ongoing |-> ongoing, started |-> started,
     ended |-> ended, draining |-> draining, errors |-> errors,
     outcome |-> outcome, settleCalls |-> settleCalls, calls |-> calls,
     pending |-> pending]

Commit(s) ==
    /\ completed' = s.completed
    /\ ongoing' = s.ongoing
    /\ started' = s.started
    /\ ended' = s.ended
    /\ draining' = s.draining
    /\ errors' = s.errors
    /\ outcome' = s.outcome
    /\ settleCalls' = s.settleCalls
    /\ calls' = s.calls
    /\ pending' = s.pending

\* Mutant: the exhaustion test is off by one (completed > count).
ShouldFinishStrict(s) ==
    LET finished == s.completed + Len(s.errors)
        allStartedFinished == s.started = finished + s.ongoing /\ s.ongoing = 0
        allTasksCompleted == s.completed > count
    IN  allTasksCompleted \/ (s.draining /\ allStartedFinished)

\* Mutant: allStartedFinished forgets to test ongoing === 0.
ShouldFinishEarly(s) ==
    LET finished == s.completed + Len(s.errors)
        allStartedFinished == s.started = finished + s.ongoing
        allTasksCompleted == s.completed >= count
    IN  allTasksCompleted \/ (s.draining /\ allStartedFinished)

\* allTasksCompleted || (draining && allStartedFinished)
ShouldFinish(s) ==
    LET finished == s.completed + Len(s.errors)
        allStartedFinished == s.started = finished + s.ongoing /\ s.ongoing = 0
        allTasksCompleted == s.completed >= count
    IN  allTasksCompleted \/ (s.draining /\ allStartedFinished)

\* Mutant: the summary message counts the finished tasks, not the errors.
FinishWrongMessage(s) ==
    IF Len(s.errors) > 0
    THEN Reject(s, AggregateError(s.errors, Message(s.completed)))
    ELSE Resolve(s)

\* Mutant: checkCompletion resolves without looking at errors.
FinishIgnoresErrors(s) == Resolve(s)

\* The settlement checkCompletion delivers once it decided to finish.
Finish(s) ==
    IF Len(s.errors) > 0
    THEN Reject(s, AggregateError(s.errors, Message(Len(s.errors))))
    ELSE Resolve(s)

checkCompletion(s) ==
    IF s.ended THEN s
    ELSE IF ShouldFinish(s) THEN Finish([s EXCEPT !.ended = TRUE])
    ELSE s

\* Mutant: the test for work left is off by one (completed + ongoing > count).
NothingLeftOffByOne(s) == s.completed + s.ongoing > count

\* if (completed + ongoing >= count) return;
NothingLeft(s) == s.completed + s.ongoing >= count

\* Mutant: the capacity test is off by one (ongoing <= concurrency).
HasCapacityOffByOne(s) == s.ongoing <= concurrency

\* if (ongoing < concurrency)
HasCapacity(s) == s.ongoing < concurrency

\* Mutant: the task is called with ongoing instead of started as its index.
LaunchWrongIndex(s) ==
    [s EXCEPT !.started = @ + 1,
              !.ongoing = @ + 1,
              !.calls = Append(@, s.ongoing),
              !.pending = @ \cup {Len(s.calls) + 1}]

\* const index = started; started += 1; ongoing += 1; task(index)
Launch(s) ==
    [s EXCEPT !.started = @ + 1,
              !.ongoing = @ + 1,
              !.calls = Append(@, s.started),
              !.pending = @ \cup {Len(s.calls) + 1}]

\* Mutant: trigger does not return at once when the run has ended.
RECURSIVE triggerIgnoresEnded(_)
triggerIgnoresEnded(s) ==
    IF s.completed >= count THEN checkCompletion(s)
    ELSE IF s.draining THEN checkCompletion(s)
    ELSE IF NothingLeft(s) THEN s
    ELSE IF HasCapacity(s) THEN triggerIgnoresEnded(Launch(s))
    ELSE s

RECURSIVE trigger(_)
trigger(s) ==
    IF s.ended THEN s
    ELSE IF s.completed >= count THEN checkCompletion(s)
    ELSE IF s.draining THEN checkCompletion(s)
    ELSE IF NothingLeft(s) THEN s
    ELSE IF HasCapacity(s) THEN trigger(Launch(s))
    ELSE s

\* Mutant: the fulfilment callback forgets ongoing -= 1.
OnFulfilledKeepsOngoing(s) == trigger([s EXCEPT !.completed = @ + 1])

\* ongoing -= 1; completed += 1;
Fulfilment(s) == [s EXCEPT !.ongoing = @ - 1, !.completed = @ + 1]

\* Mutant: the fulfilment callback does not call trigger().
OnFulfilledNoDispatch(s) == Fulfilment(s)

\* task(index).then(() => { ... })
OnFulfilled(s) == trigger(Fulfilment(s))

\* Mutant: abort rejects without testing ended first.
AbortUnguarded(s, e) == Reject([s EXCEPT !.ended = TRUE], TaskError(e))

\* Mutant: abort wraps the collected errors in an AggregateError.
AbortWrapped(s, e) ==
    IF ~s.ended
    THEN Reject([s EXCEPT !.ended = TRUE],
                AggregateError(s.errors, Message(Len(s.errors))))
    ELSE s

\* case 'abort'
Abort(s, e) ==
    IF ~s.ended THEN Reject([s EXCEPT !.ended = TRUE], TaskError(e)) ELSE s

\* Mutant: drain forgets to set draining and goes on dispatching.
DrainForgetsFlag(s) == trigger(s)

\* case 'drain'
Drain(s) == checkCompletion([s EXCEPT !.draining = TRUE])

\* Mutant: continue stops launching at the first failure, as drain does.
ContinueAsDrain(s) == checkCompletion([s EXCEPT !.draining = TRUE])

\* case 'continue': completed += 1;
Counted(s) == [s EXCEPT !.completed = @ + 1]

\* case 'continue'
Continue(s) == trigger(Counted(s))

\* Mutant: the failure is put in front of errors (unshift instead of push).
RejectionPrepends(s, e) ==
    [s EXCEPT !.ongoing = @ - 1, !.errors = <<TaskError(e)>> \o @]

\* ongoing -= 1; errors.push(e);
Rejection(s, e) == [s EXCEPT !.ongoing = @ - 1, !.errors = Append(@, TaskError(e))]

\* task(index).then(..., (e) => { ... })
OnRejected(s, e) ==
    LET t == Rejection(s, e)
    IN  CASE onError = "abort" -> Abort(t, e)
          [] onError = "drain" -> Drain(t)
          [] onError = "continue" -> Continue(t)

\* for (let i = 0; i < concurrency && i < count; i++) trigger();
RECURSIVE StartLoop(_, _)
StartLoop(s, i) ==
    IF i < concurrency /\ i < count THEN StartLoop(trigger(s), i + 1) ELSE s

\* Mutant: the empty run is never resolved.
ResolveIfEmptyMissing(s) == s

\* Mutant: the run is resolved when the start loop launched nothing.
ResolveIfNothingStarted(s) == IF s.started = 0 THEN Resolve(s) ELSE s

\* if (count === 0) resolve();
ResolveIfEmpty(s) == IF count = 0 THEN Resolve(s) ELSE s

Executor(s) == ResolveIfEmpty(StartLoop(s, 0))

\* Whether the invocation of trigger in state s launches a task itself.
LaunchedAt(s) == trigger(s).started > s.started

\* The states in which trigger is invoked by a call of trigger in state s:
\* s, and after a launch the state of the recursive call (line 114).
RECURSIVE TriggerCalls(_)
TriggerCalls(s) ==
    {s} \cup (IF LaunchedAt(s) THEN TriggerCalls(Launch(s)) ELSE {})

\* The states in which trigger is invoked by the start loop from its round i.
RECURSIVE StartCalls(_, _)
StartCalls(s, i) ==
    IF i < concurrency /\ i < count
    THEN TriggerCalls(s) \cup StartCalls(trigger(s), i + 1)
    ELSE {}

\* The states in which trigger is invoked when the task at position p settles.
SettleCalls(p) ==
    LET s == [State EXCEPT !.pending = @ \ {p}]
    IN  TriggerCalls(Fulfilment(s))
        \cup (IF onError = "continue"
              THEN UNION {TriggerCalls(Counted(Rejection(s, e))) : e \in ErrorValues}
              ELSE {})

\* The states in which the next step, whichever it is, invokes trigger.
Invocations ==
    IF pc = "created"
    THEN StartCalls(State, 0)
    ELSE UNION {SettleCalls(p) : p \in pending}

-----------------------------------------------------------------------------

Init ==
    /\ concurrency \in Concurrencies
    /\ count \in Counts
    /\ onError \in OnError
    /\ completed = 0
    /\ ongoing = 0
    /\ started = 0
    /\ ended = FALSE
    /\ draining = FALSE
    /\ errors = <<>>
    /\ outcome = PendingPromise
    /\ settleCalls = 0
    /\ calls = <<>>
    /\ pending = {}
    /\ failLog = <<>>
    /\ pc = "created"

\* new Promise((resolve, reject) => { ... }): the executor runs to its end.
Start ==
    /\ pc = "created"
    /\ pc' = "running"
    /\ Commit(Executor(State))
    /\ UNCHANGED <<config, failLog>>

\* The promise of the task called at position p fulfils.
TaskFulfils(p) ==
    /\ pc = "running"
    /\ p \in pending
    /\ Commit(OnFulfilled([State EXCEPT !.pending = @ \ {p}]))
    /\ UNCHANGED <<config, failLog, pc>>

\* The promise of the task called at position p rejects with e.
TaskRejects(p, e) ==
    /\ pc = "running"
    /\ p \in pending
    /\ Commit(OnRejected([State EXCEPT !.pending = @ \ {p}], e))
    /\ failLog' = Append(failLog, [index |-> calls[p], error |-> TaskError(e)])
    /\ UNCHANGED <<config, pc>>

Settles(p) == TaskFulfils(p) \/ \E e \in ErrorValues : TaskRejects(p, e)

Next ==
    \/ Start
    \/ \E p \in 1..Len(calls) : TaskFulfils(p)
    \/ \E p \in 1..Len(calls), e \in ErrorValues : TaskRejects(p, e)

Spec == Init /\ [][Next]_vars

SomeSettles == \E p \in pending : Settles(p)

\* The executor runs when PromisePool is called, and while a launched task is
\* unsettled a task eventually settles; a run launches finitely many tasks and
\* each settles once, so every launched task eventually settles.
FairSpec ==
    /\ Spec
    /\ WF_vars(Start)
    /\ WF_vars(SomeSettles)

TypeOK ==
    /\ completed \in Nat /\ ongoing \in Nat /\ started \in Nat
    /\ ended \in BOOLEAN /\ draining \in BOOLEAN
    /\ outcome.state \in {"pending", "fulfilled", "rejected"}
    /\ pc \in {"created", "running"}

-----------------------------------------------------------------------------
\* Helpers of the properties.

Delivered == outcome.state # "pending"

Fulfilled == [state |-> "fulfilled", reason |-> [type |-> "none"]]

Rejected(reason) == [state |-> "rejected", reason |-> reason]

\* The failure values of the failed tasks, in the order the tasks settled.
FailedErrors == [k \in 1..Len(failLog) |-> failLog[k].error]

FailedIndices == {failLog[k].index : k \in 1..Len(failLog)}

\* calls is 0, 1, 2, ... and no longer than count.
CallsInOrder == Len(calls) <= count /\ \A k \in 1..Len(calls) : calls[k] = k - 1

\* Every index of [0, count) was passed to task() exactly once, and no other.
EveryIndexOnce ==
    /\ Len(calls) = count
    /\ \A i \in 0..(count - 1) : Cardinality({k \in 1..Len(calls) : calls[k] = i}) = 1

-----------------------------------------------------------------------------
\* C1: with concurrency >= 1, under every policy and interleaving, the number
\* of launched tasks that have not settled (ongoing, which is the number of
\* unsettled task promises) never exceeds concurrency.
C1_OngoingBounded ==
    concurrency >= 1 =>
        /\ ongoing = Cardinality(pending)
        /\ ongoing <= concurrency

\* A slot freed by a settlement was refilled up to the bound.
C1_Witness ==
    /\ concurrency >= 1
    /\ count > concurrency
    /\ completed >= 1
    /\ ongoing = concurrency
    /\ Cardinality(pending) = concurrency

\* C2: with concurrency >= 1 and count >= 0, under each policy, if every
\* launched task eventually settles then the returned promise is eventually
\* settled; it does not stay pending forever.
\* (concurrency and count never change in a run, so the hypothesis on them is
\* stated inside the eventuality.)
C2_Terminates == <>((concurrency >= 1 /\ count >= 0) => Delivered)

\* A run with failures whose tasks all settled has delivered its outcome.
C2_Witness ==
    /\ concurrency >= 1
    /\ count >= 2
    /\ Len(failLog) >= 1
    /\ completed >= 1
    /\ pending = {}
    /\ Delivered

\* C3: resolve or reject is called at most once in a run, whatever settles
\* or is dispatched after the first call.
C3_SettledOnce == settleCalls <= 1

\* Under abort a second task failed after the outcome was delivered.
C3_Witness ==
    /\ onError = "abort"
    /\ Len(failLog) >= 2
    /\ settleCalls = 1
    /\ ended

\* C4: when count = 0, for every concurrency and policy, the run delivers
\* Success and task() is never called (started stays 0).
C4_EmptyRun ==
    count = 0 =>
        /\ started = 0
        /\ calls = <<>>
        /\ (pc = "running" => outcome = Fulfilled)

C4_Witness ==
    /\ count = 0
    /\ concurrency >= 1
    /\ pc = "running"
    /\ outcome = Fulfilled
    /\ started = 0

\* C5: for count > 0 and concurrency >= 1 (below, equal to or above count),
\* under every policy, if no task fails then every index of [0, count) is
\* passed to task() exactly once, no other index is, and the outcome is
\* Success.
C5_AllSucceed ==
    (count > 0 /\ concurrency >= 1 /\ failLog = <<>>) =>
        /\ CallsInOrder
        /\ outcome.state # "rejected"
        /\ (pc = "running" /\ pending = {} => EveryIndexOnce /\ outcome = Fulfilled)

\* A run with fewer slots than tasks ended in Success.
C5_Witness ==
    /\ concurrency >= 2
    /\ count > concurrency
    /\ failLog = <<>>
    /\ pc = "running"
    /\ pending = {}
    /\ outcome = Fulfilled

\* C6: under abort, once a task has failed the outcome is a Failure carrying
\* the failure value of the first task that settled with a failure, as it is
\* and not in an aggregate; it is delivered at that settlement, also while
\* other tasks are in flight, and a later failure never replaces it.
C6_AbortFirstError ==
    (onError = "abort" /\ failLog # <<>>) => outcome = Rejected(failLog[1].error)

\* A second task failed with another value while a third was in flight.
C6_Witness ==
    /\ onError = "abort"
    /\ Len(failLog) >= 2
    /\ failLog[2].error # failLog[1].error
    /\ failLog[1].index > failLog[2].index
    /\ pending # {}
    /\ outcome = Rejected(failLog[1].error)

\* C7: under drain, once a task has failed (draining is set) no task is
\* launched any more: started and the calls of task() stay as they are.
C7_DrainStopsLaunching ==
    [][(onError = "drain" /\ failLog # <<>>) =>
           (draining /\ started' = started /\ calls' = calls)]_vars

\* A task in flight settled while draining: slots are free, an index is left,
\* and none is launched.
C7_Witness ==
    /\ onError = "drain"
    /\ draining
    /\ Len(failLog) = 2
    /\ ongoing >= 1
    /\ ongoing < concurrency
    /\ started < count

\* C8: under drain, when a task has failed, the outcome is not delivered
\* while a launched task is unsettled; it is delivered at the step where
\* ongoing reaches 0, and it is an Aggregate Failure whose error list holds
\* the failure of every launched task that failed.
C8_DrainAggregate ==
    (onError = "drain" /\ failLog # <<>>) =>
        /\ (pending # {} => ~Delivered /\ ongoing > 0)
        /\ (pending = {} =>
               /\ ongoing = 0
               /\ outcome.state = "rejected"
               /\ outcome.reason.type = "AggregateError"
               /\ outcome.reason.errors = FailedErrors)

\* The first failure and a task in flight that failed later are both held.
C8_Witness ==
    /\ onError = "drain"
    /\ Len(failLog) >= 2
    /\ completed >= 1
    /\ started < count
    /\ pending = {}
    /\ outcome.state = "rejected"
    /\ Len(outcome.reason.errors) = Len(failLog)

\* C9: under continue, for count > 0 and concurrency >= 1 and every pattern
\* of failures, every index of [0, count) is launched exactly once, and the
\* outcome is delivered only when all count tasks have settled
\* (started = count and ongoing = 0).
C9_ContinueRunsAll ==
    (onError = "continue" /\ count > 0 /\ concurrency >= 1) =>
        /\ CallsInOrder
        /\ (pc = "running" /\ pending = {} => EveryIndexOnce /\ Delivered)
        /\ (Delivered =>
               /\ started = count
               /\ ongoing = 0
               /\ pending = {}
               /\ EveryIndexOnce)

C9_Witness ==
    /\ onError = "continue"
    /\ count >= 3
    /\ concurrency >= 1
    /\ Len(failLog) >= 2
    /\ failLog[1].index = 0
    /\ Delivered
    /\ started = count

\* C10: under continue, the outcome is Success if and only if no task
\* failed; otherwise it is an Aggregate Failure whose error list has one
\* entry per failed task and whose message is "<n> task(s) failed", n being
\* the length of the list.
C10_ContinueOutcome ==
    (onError = "continue" /\ Delivered) =>
        /\ (outcome = Fulfilled <=> failLog = <<>>)
        /\ (failLog # <<>> =>
               /\ outcome.state = "rejected"
               /\ outcome.reason.type = "AggregateError"
               /\ outcome.reason.errors = FailedErrors
               /\ Len(outcome.reason.errors) = Cardinality(FailedIndices)
               /\ outcome.reason.message
                      = ToString(Len(outcome.reason.errors)) \o " task(s) failed")

C10_Witness ==
    /\ onError = "continue"
    /\ count >= 3
    /\ Len(failLog) = 2
    /\ completed = count
    /\ outcome.state = "rejected"
    /\ outcome.reason.message = "2 task(s) failed"

\* C11: with concurrency = 1 the tasks are launched in index order, one at a
\* time: the calls of task() are 0, 1, ..., the task of index i + 1 is
\* launched only when the task of index i has settled, and at most one task
\* is ongoing in every state.
C11_Sequential ==
    concurrency = 1 =>
        /\ CallsInOrder
        /\ ongoing <= 1
        /\ Cardinality(pending) <= 1
        /\ pending \subseteq {Len(calls)}

\* The third task is in flight, the two before it have settled.
C11_Witness ==
    /\ concurrency = 1
    /\ count >= 3
    /\ calls = <<0, 1, 2>>
    /\ pending = {3}
    /\ completed = 2

\* C12: in every run the indices passed to task() are 0, 1, 2, ... in
\* increasing order with no gap and no repetition, each is in [0, count), and
\* started <= count in every reachable state, whatever concurrency and policy.
C12_IndicesInRange ==
    /\ started = Len(calls)
    /\ started <= count
    /\ \A k \in 1..Len(calls) : calls[k] = k - 1 /\ calls[k] \in 0..(count - 1)

\* All count indices were launched in a run in which tasks failed.
C12_Witness ==
    /\ count >= 3
    /\ concurrency >= 2
    /\ started = count
    /\ Len(failLog) >= 1
    /\ calls[count] = count - 1

\* C13: once the run has ended (its outcome is delivered, under any policy,
\* also by an abort with tasks in flight) no task is launched any more: every
\* later settlement of a task in flight leaves started, the calls of task(),
\* ended and the delivered outcome as they are.
C13_NothingAfterEnd ==
    [][(ended \/ Delivered) =>
           /\ started' = started
           /\ calls' = calls
           /\ ended' = ended
           /\ outcome' = outcome
           /\ settleCalls' = settleCalls]_vars

\* After an abort a task in flight fulfilled: slots are free, indices are
\* left, and none was launched.
C13_Witness ==
    /\ onError = "abort"
    /\ ended
    /\ Len(failLog) = 1
    /\ pending # {}
    /\ ongoing + 2 <= concurrency
    /\ started < count

\* C14 as stated: started = completed + errors.length + ongoing in every state
\* between two steps, under every policy and every pattern of failures.
C14_Original == started = completed + Len(errors) + ongoing

\* C14, amended: started = completed + errors.length + ongoing holds in every
\* state under abort and drain; under continue, where a failed task is counted
\* in completed as well as in errors, started = completed + ongoing holds.
C14_Accounting ==
    IF onError = "continue"
    THEN started = completed + ongoing
    ELSE started = completed + Len(errors) + ongoing

\* Under continue tasks have failed and fulfilled while another is in flight.
C14_Witness ==
    /\ onError = "continue"
    /\ Len(errors) >= 1
    /\ completed > Len(errors)
    /\ ongoing >= 1
    /\ started = completed + ongoing

\* C15 as stated: the dispatch step launches no task when started + ongoing
\* >= count or ongoing >= concurrency at the moment it is invoked (so a task
\* is launched only when started + ongoing < count and ongoing < concurrency).
C15_Original ==
    \A s \in Invocations :
        (s.started + s.ongoing >= count \/ s.ongoing >= concurrency) => ~LaunchedAt(s)

\* C15, amended: the dispatch step launches no task when completed + ongoing
\* >= count or ongoing >= concurrency at the moment it is invoked; a task is
\* launched only when completed + ongoing < count and ongoing < concurrency.
C15_LaunchGuard ==
    \A s \in Invocations :
        /\ (s.completed + s.ongoing >= count \/ s.ongoing >= concurrency) => ~LaunchedAt(s)
        /\ LaunchedAt(s) => (s.completed + s.ongoing < count /\ s.ongoing < concurrency)

\* A settlement is about to refill a slot in a state where started + ongoing
\* has reached count.
C15_Witness ==
    /\ pc = "running"
    /\ \E s \in Invocations :
           /\ LaunchedAt(s)
           /\ s.started + s.ongoing >= count
           /\ s.completed + s.ongoing < count
           /\ s.completed >= 1

\* C16: the shape of a delivered Failure is fixed by the policy. Under abort
\* it is a single failure value of a task, never an aggregate. Under drain
\* and continue it is an aggregate, never a bare failure value and never
\* empty; its error list is errors, in the order the failing tasks settled,
\* and the n of its message "<n> task(s) failed" is the length of the list.
C16_FailureShape ==
    outcome.state = "rejected" =>
        IF onError = "abort"
        THEN /\ outcome.reason.type = "Error"
             /\ \E k \in 1..Len(failLog) : outcome.reason = failLog[k].error
        ELSE /\ outcome.reason.type = "AggregateError"
             /\ Len(outcome.reason.errors) >= 1
             /\ outcome.reason.errors = errors
             /\ outcome.reason.errors = FailedErrors
             /\ outcome.reason.message
                    = ToString(Len(outcome.reason.errors)) \o " task(s) failed"

\* Under drain two tasks failed with different values, the task of the higher
\* index first.
C16_Witness ==
    /\ onError = "drain"
    /\ outcome.state = "rejected"
    /\ Len(failLog) = 2
    /\ failLog[1].index > failLog[2].index
    /\ failLog[1].error # failLog[2].error
    /\ outcome.reason.errors = <<failLog[1].error, failLog[2].error>>

Min(a, b) == IF a <= b THEN a ELSE b

\* Work conservation in the states between two steps, once the executor ran.
WorkConserved ==
    /\ (pc = "running" /\ ~ended /\ ~draining) =>
           (ongoing = concurrency \/ started = count)
    /\ (pc = "running" /\ completed = 0 /\ errors = <<>>) =>
           (started = Min(concurrency, count) /\ ongoing = started)

\* C17 as stated: in every state between two steps in which the run has not
\* ended and is not draining, ongoing = concurrency or started = count; exactly
\* min(concurrency, count) tasks are launched at the outset, before any task
\* settles, and a freed slot is refilled in the same step while an index is
\* left.
C17_Original == WorkConserved

\* C17, amended: the same, for concurrency >= 0.
C17_WorkConserving == concurrency >= 0 => WorkConserved

\* After a failure under continue every slot is taken again and an index is
\* left.
C17_Witness ==
    /\ onError = "continue"
    /\ concurrency >= 2
    /\ pc = "running"
    /\ ~ended
    /\ Len(failLog) >= 1
    /\ completed >= 1
    /\ ongoing = concurrency
    /\ started < count

\* C18: Success is delivered only in a state where errors is empty,
\* completed = count, started = count and ongoing = 0: under every policy the
\* run does not report Success if a launched task failed or an index of
\* [0, count) was not launched and settled with success.
C18_SuccessMeansAllDone ==
    outcome.state = "fulfilled" =>
        /\ errors = <<>>
        /\ failLog = <<>>
        /\ completed = count
        /\ started = count
        /\ ongoing = 0
        /\ pending = {}
        /\ EveryIndexOnce

C18_Witness ==
    /\ outcome.state = "fulfilled"
    /\ onError = "drain"
    /\ count >= 3
    /\ concurrency = 2
    /\ completed = count

\* C19: under drain the number of failures in the delivered Aggregate Failure
\* is at least 1 and at most min(concurrency, count), and the number of tasks
\* launched in the run is at most the number of tasks that succeeded before
\* the first failure plus concurrency: at the step of the first failure
\* started is at most completed + concurrency, and it does not change after.
C19_DrainBounds ==
    [][onError = "drain" =>
           /\ outcome'.state = "rejected" =>
                  /\ Len(outcome'.reason.errors) >= 1
                  /\ Len(outcome'.reason.errors) <= Min(concurrency, count)
                  /\ Len(outcome'.reason.errors) = Len(failLog')
           /\ (failLog = <<>> /\ failLog' # <<>>) =>
                  (completed' = completed /\ started' <= completed + concurrency)
           /\ failLog # <<>> => started' = started]_vars

\* Every task in flight at the first failure failed too: the aggregate holds
\* concurrency failures, after a task had succeeded.
C19_Witness ==
    /\ onError = "drain"
    /\ concurrency >= 2
    /\ count > concurrency
    /\ outcome.state = "rejected"
    /\ Len(outcome.reason.errors) = concurrency
    /\ completed >= 1
    /\ started = completed + concurrency

\* C20: with concurrency <= 0 and count > 0, under every policy, no task is
\* ever launched and no outcome is ever delivered: the run stays pending, it
\* does not fail with a configuration error.
C20_NonPositiveStaysPending ==
    (concurrency <= 0 /\ count > 0) =>
        /\ started = 0
        /\ calls = <<>>
        /\ ~ended
        /\ settleCalls = 0
        /\ outcome = PendingPromise

\* The executor has run with concurrency <= 0 and left the promise pending.
C20_Witness ==
    /\ concurrency <= 0
    /\ count > 0
    /\ pc = "running"
    /\ outcome = PendingPromise

====
